---- MODULE Spec2Model ----
(***************************************************************************)
(* Redis key pattern analyzer (src/redis_key_analyzer.py).                 *)
(*                                                                         *)
(* A key, a segment and a pattern are Python strings, modelled as          *)
(* sequences of one-character strings, so that split, join, isdigit,       *)
(* isupper, isalnum, replace and count are computed character by           *)
(* character as the interpreter computes them.                             *)
(***************************************************************************)
EXTENDS Integers, Sequences, FiniteSets, TLC

VARIABLES
    gen_pc,         \* position of the generalizer harness: "idle" | "call" | "done"
    gen_key,        \* argument of _extract_pattern
    gen_pattern,    \* value returned by _extract_pattern (<<>> before the call)
    pc,             \* position in analyze_keys: "idle" | "scan" | "scanned" | "group"
                    \*   | "analyze" | "profile" | "returned"
    run,            \* number of the analyze_keys call on this analyzer (1, 2, ...)
    prev_summary,   \* (pattern, total_keys) of the previous call's result, kept by the caller
    sample_size,    \* argument of analyze_keys
    store_keys,     \* the store: its keys in the order the scan iterates them
    faults_left,    \* the store: how many more profiling calls it may fail
    cursor,         \* analyze_keys: cursor
    all_keys,       \* analyze_keys: all_keys
    total_keys,     \* analyze_keys: total_keys
    group_i,        \* analyze_keys: index of `for key in all_keys`
    pattern_groups, \* analyze_keys: pattern_groups, a dict as the sequence of its items
    bucket_i,       \* analyze_keys: index of `for pattern, keys in pattern_groups.items()`
    results,        \* analyze_keys: results, a dict as the sequence of its values
    sample_keys,    \* _analyze_pattern: sample_keys
    sample_i,       \* _analyze_pattern: index of `for key in sample_keys`
    types,          \* _analyze_pattern: types (Counter)
    sample_data,    \* _analyze_pattern: sample_data
    total_memory,   \* _analyze_pattern: total_memory
    ttl_info,       \* _analyze_pattern: ttl_info
    calls,          \* the store: the profiling calls of this run, <<command, key, reply>>
    exit_code,      \* main: exit status of the process, None while it runs
    printed,        \* main: the report written to standard output, <<>> before it
    caught,         \* main: the call whose exception reached main's except clauses
    interrupted,    \* the operator: whether the interrupt has been delivered
    fn_pc,          \* position of the harness of one function call: "idle" | "call" | "done"
    fn_args,        \* arguments of the function called on its own
    fn_out          \* what that call returned and what it read from the store

gen_vars == <<gen_pc, gen_key, gen_pattern>>

scan_vars == <<cursor, all_keys, total_keys>>

pattern_vars == <<sample_keys, sample_i, types, sample_data, total_memory, ttl_info>>

env_vars == <<sample_size, store_keys>>

main_vars == <<exit_code, printed, caught, interrupted>>

fn_vars == <<fn_pc, fn_args, fn_out>>

vars ==
    <<gen_pc, gen_key, gen_pattern, pc, run, prev_summary, sample_size, store_keys,
      faults_left, cursor, all_keys, total_keys, group_i, pattern_groups, bucket_i,
      results, sample_keys, sample_i, types, sample_data, total_memory, ttl_info, calls,
      exit_code, printed, caught, interrupted, fn_pc, fn_args, fn_out>>

(***************************************************************************)
(* Characters and the str predicates of Python that the code uses          *)
(***************************************************************************)
Lower == {"a","b","c","d","e","f","g","h","i","j","k","l","m","n","o","p","q","r","s","t","u","v","w","x","y","z"}

Upper == {"A","B","C","D","E","F","G","H","I","J","K","L","M","N","O","P","Q","R","S","T","U","V","W","X","Y","Z"}

Digits == {"0","1","2","3","4","5","6","7","8","9"}

\* str.isdigit(): at least one character and every character a digit
isdigit(s) == Len(s) >= 1 /\ \A i \in 1..Len(s) : s[i] \in Digits

\* str.isupper(): no lower-case cased character and at least one upper-case one
\* (uncased characters such as digits and punctuation are ignored)
isupper(s) ==
    /\ \A i \in 1..Len(s) : s[i] \notin Lower
    /\ \E i \in 1..Len(s) : s[i] \in Upper

\* str.isalnum(): at least one character and every character a letter or digit
isalnum(s) == Len(s) >= 1 /\ \A i \in 1..Len(s) : s[i] \in (Lower \cup Upper \cup Digits)

\* str.count(ch) for a one-character argument
count(s, ch) == Cardinality({i \in 1..Len(s) : s[i] = ch})

RECURSIVE replace(_, _)
\* str.replace(ch, ''): every occurrence of ch removed
replace(s, ch) ==
    IF s = <<>> THEN <<>>
    ELSE IF Head(s) = ch THEN replace(Tail(s), ch)
    ELSE <<Head(s)>> \o replace(Tail(s), ch)

RECURSIVE split_acc(_, _, _, _, _)
split_acc(s, sep, i, cur, acc) ==
    IF i > Len(s) THEN Append(acc, cur)
    ELSE IF s[i] = sep THEN split_acc(s, sep, i + 1, <<>>, Append(acc, cur))
    ELSE split_acc(s, sep, i + 1, Append(cur, s[i]), acc)

\* str.split(sep): the list of segments, never empty ('' splits to [''])
split(s, sep) == split_acc(s, sep, 1, <<>>, <<>>)

RECURSIVE join(_, _)
\* sep.join(parts)
join(sep, parts) ==
    IF parts = <<>> THEN <<>>
    ELSE IF Len(parts) = 1 THEN parts[1]
    ELSE parts[1] \o <<sep>> \o join(sep, Tail(parts))

\* the four placeholder suffixes, each with its leading colon
SfxUuid == <<":","{","u","u","i","d","}">>

SfxSkuId == <<":","{","s","k","u","_","i","d","}">>

SfxSetCode == <<":","{","s","e","t","_","c","o","d","e","}">>

SfxId == <<":","{","i","d","}">>

(***************************************************************************)
(* RedisKeyAnalyzer._is_uuid and RedisKeyAnalyzer._extract_pattern         *)
(***************************************************************************)
\* a plausible slip: the length compared with 32, the number of hex digits
_is_uuid_len32(s) ==
    IF Len(s) = 32 /\ count(s, "-") = 4
    THEN LET parts == split(s, "-")
         IN  /\ Len(parts) = 5
             /\ Len(parts[1]) = 8 /\ Len(parts[2]) = 4
             /\ Len(parts[3]) = 4 /\ Len(parts[4]) = 4
             /\ Len(parts[5]) = 12
    ELSE FALSE

\* a plausible slip: the five groups are counted but their lengths not checked
_is_uuid_no_group_lengths(s) ==
    IF Len(s) = 36 /\ count(s, "-") = 4
    THEN Len(split(s, "-")) = 5
    ELSE FALSE

_is_uuid(s) ==
    IF Len(s) = 36 /\ count(s, "-") = 4
    THEN LET parts == split(s, "-")
         IN  /\ Len(parts) = 5
             /\ Len(parts[1]) = 8 /\ Len(parts[2]) = 4
             /\ Len(parts[3]) = 4 /\ Len(parts[4]) = 4
             /\ Len(parts[5]) = 12
    ELSE FALSE

\* a plausible slip: the generic id branch tested before the sku and set-code ones
_extract_pattern_id_first(key) ==
    LET parts == split(key, ":")
        last == parts[Len(parts)]
        prefix == join(":", SubSeq(parts, 1, Len(parts) - 1))
    IN  IF Len(parts) >= 2
        THEN IF _is_uuid(last) THEN prefix \o SfxUuid
             ELSE IF isalnum(replace(replace(last, "_"), "-")) THEN prefix \o SfxId
             ELSE IF isdigit(last) /\ Len(last) > 6 THEN prefix \o SfxSkuId
             ELSE IF Len(last) \in {3, 4} /\ isupper(last) THEN prefix \o SfxSetCode
             ELSE key
        ELSE key

\* a plausible slip: the segment-count guard off by one (>= 1 for >= 2)
_extract_pattern_one_segment(key) ==
    LET parts == split(key, ":")
        last == parts[Len(parts)]
        prefix == join(":", SubSeq(parts, 1, Len(parts) - 1))
    IN  IF Len(parts) >= 1
        THEN IF _is_uuid(last) THEN prefix \o SfxUuid
             ELSE IF isdigit(last) /\ Len(last) > 6 THEN prefix \o SfxSkuId
             ELSE IF Len(last) \in {3, 4} /\ isupper(last) THEN prefix \o SfxSetCode
             ELSE IF isalnum(replace(replace(last, "_"), "-")) THEN prefix \o SfxId
             ELSE key
        ELSE key

\* a plausible slip: the set-code test applied to every segment after the first,
\* the first one that passes replaced in place
_extract_pattern_set_code_any(key) ==
    LET parts == split(key, ":")
        last == parts[Len(parts)]
        prefix == join(":", SubSeq(parts, 1, Len(parts) - 1))
        codes == {i \in 2..Len(parts) : Len(parts[i]) \in {3, 4} /\ isupper(parts[i])}
        at == CHOOSE i \in codes : \A j \in codes : i <= j
    IN  IF Len(parts) >= 2
        THEN IF _is_uuid(last) THEN prefix \o SfxUuid
             ELSE IF isdigit(last) /\ Len(last) > 6 THEN prefix \o SfxSkuId
             ELSE IF codes # {}
                  THEN join(":", [parts EXCEPT ![at] = <<"{","s","e","t","_","c","o","d","e","}">>])
             ELSE IF isalnum(replace(replace(last, "_"), "-")) THEN prefix \o SfxId
             ELSE key
        ELSE key

\* a plausible slip: the set-code test without isupper (length only)
_extract_pattern_any_case(key) ==
    LET parts == split(key, ":")
        last == parts[Len(parts)]
        prefix == join(":", SubSeq(parts, 1, Len(parts) - 1))
    IN  IF Len(parts) >= 2
        THEN IF _is_uuid(last) THEN prefix \o SfxUuid
             ELSE IF isdigit(last) /\ Len(last) > 6 THEN prefix \o SfxSkuId
             ELSE IF Len(last) \in {3, 4} THEN prefix \o SfxSetCode
             ELSE IF isalnum(replace(replace(last, "_"), "-")) THEN prefix \o SfxId
             ELSE key
        ELSE key

\* a plausible slip: isalnum applied without removing underscores and hyphens
_extract_pattern_no_strip(key) ==
    LET parts == split(key, ":")
        last == parts[Len(parts)]
        prefix == join(":", SubSeq(parts, 1, Len(parts) - 1))
    IN  IF Len(parts) >= 2
        THEN IF _is_uuid(last) THEN prefix \o SfxUuid
             ELSE IF isdigit(last) /\ Len(last) > 6 THEN prefix \o SfxSkuId
             ELSE IF Len(last) \in {3, 4} /\ isupper(last) THEN prefix \o SfxSetCode
             ELSE IF isalnum(last) THEN prefix \o SfxId
             ELSE key
        ELSE key

\* a plausible slip: the prefix taken as the first segment (parts[0]) instead
\* of every segment but the last (parts[:-1])
_extract_pattern_first_segment(key) ==
    LET parts == split(key, ":")
        last == parts[Len(parts)]
        prefix == parts[1]
    IN  IF Len(parts) >= 2
        THEN IF _is_uuid(last) THEN prefix \o SfxUuid
             ELSE IF isdigit(last) /\ Len(last) > 6 THEN prefix \o SfxSkuId
             ELSE IF Len(last) \in {3, 4} /\ isupper(last) THEN prefix \o SfxSetCode
             ELSE IF isalnum(replace(replace(last, "_"), "-")) THEN prefix \o SfxId
             ELSE key
        ELSE key

\* a plausible slip: the placeholders written without their braces
_extract_pattern_bare_placeholders(key) ==
    LET parts == split(key, ":")
        last == parts[Len(parts)]
        prefix == join(":", SubSeq(parts, 1, Len(parts) - 1))
    IN  IF Len(parts) >= 2
        THEN IF _is_uuid(last) THEN prefix \o <<":","u","u","i","d">>
             ELSE IF isdigit(last) /\ Len(last) > 6 THEN prefix \o <<":","s","k","u","_","i","d">>
             ELSE IF Len(last) \in {3, 4} /\ isupper(last) THEN prefix \o <<":","s","e","t","_","c","o","d","e">>
             ELSE IF isalnum(replace(replace(last, "_"), "-")) THEN prefix \o <<":","i","d">>
             ELSE key
        ELSE key

_extract_pattern(key) ==
    LET parts == split(key, ":")
        last == parts[Len(parts)]
        prefix == join(":", SubSeq(parts, 1, Len(parts) - 1))
    IN  IF Len(parts) >= 2
        THEN IF _is_uuid(last) THEN prefix \o SfxUuid
             ELSE IF isdigit(last) /\ Len(last) > 6 THEN prefix \o SfxSkuId
             ELSE IF Len(last) \in {3, 4} /\ isupper(last) THEN prefix \o SfxSetCode
             ELSE IF isalnum(replace(replace(last, "_"), "-")) THEN prefix \o SfxId
             ELSE key
        ELSE key

(***************************************************************************)
(* Python values used by the analyzer                                      *)
(***************************************************************************)
\* None and a present integer, as sequences of length 0 and 1
None == <<>>

Some(n) == <<n>>

Min(a, b) == IF a <= b THEN a ELSE b

Max(a, b) == IF a >= b THEN a ELSE b

\* the slice s[:n] of Python, n of either sign
SlicePrefix(s, n) ==
    IF n >= 0 THEN SubSeq(s, 1, Min(n, Len(s)))
    ELSE SubSeq(s, 1, Max(Len(s) + n, 0))

\* Counter: types[t] += 1, a missing entry counting as 0
CounterInc(c, t) ==
    IF t \in DOMAIN c THEN [c EXCEPT ![t] = @ + 1]
    ELSE [x \in DOMAIN c \cup {t} |-> IF x = t THEN 1 ELSE c[x]]

\* position of a pattern among the items of a dict, 0 when it is no key of it
DictIndex(d, pattern) ==
    IF \E i \in 1..Len(d) : d[i].pattern = pattern
    THEN CHOOSE i \in 1..Len(d) : d[i].pattern = pattern
    ELSE 0

\* a plausible slip: a key already in the bucket is not appended again
DictAppendUnique(d, pattern, key) ==
    LET i == DictIndex(d, pattern)
    IN  IF i = 0 THEN Append(d, [pattern |-> pattern, keys |-> <<key>>])
        ELSE IF \E j \in 1..Len(d[i].keys) : d[i].keys[j] = key THEN d
        ELSE [d EXCEPT ![i].keys = Append(@, key)]

\* a plausible slip: the bucket of the key itself looked up as well, which on a
\* defaultdict creates it empty
DictAppendTouchesKey(d, pattern, key) ==
    LET i == DictIndex(d, pattern)
        e == IF i = 0 THEN Append(d, [pattern |-> pattern, keys |-> <<key>>])
             ELSE [d EXCEPT ![i].keys = Append(@, key)]
    IN  IF DictIndex(e, key) = 0 THEN Append(e, [pattern |-> key, keys |-> <<>>]) ELSE e

\* pattern_groups[pattern].append(key) on a defaultdict(list)
DictAppend(d, pattern, key) ==
    LET i == DictIndex(d, pattern)
    IN  IF i = 0 THEN Append(d, [pattern |-> pattern, keys |-> <<key>>])
        ELSE [d EXCEPT ![i].keys = Append(@, key)]

(***************************************************************************)
(* The store: keys, values and the replies to the profiling commands       *)
(***************************************************************************)
KeyCardA == <<"c","a","r","d",":","a","1","b","2","c","3","d","4","-","e","5","f","6","-","7","8","9","0","-","a","b","c","d","-","e","f","1","2","3","4","5","6","7","8","9","0">>

KeyCardB == <<"c","a","r","d",":","a","9","b","8","c","7","d","6","-","e","5","f","4","-","3","2","1","0","-","f","e","d","c","-","b","a","0","9","8","7","6","5","4","3","2","1">>

KeyOracle == <<"c","a","r","d",":","o","r","a","c","l","e",":","x","y","z","1","2","3">>

KeyMeta == <<"m","e","t","a">>

KeyPool == {KeyCardA, KeyCardB, KeyOracle, KeyMeta}

\* what the store holds under each key: KeyCardA a string that decodes as a JSON
\* object, KeyCardB a hash of four fields with a time to live, KeyOracle a string
\* that is not JSON, KeyMeta a key deleted since the scan
Store(key) ==
    CASE key = KeyCardA ->
            [type |-> "string", memory |-> Some(120), ttl |-> -1,
             data |-> [present |-> TRUE, raw |-> <<"{","}">>,
                       loads |-> <<"other", <<"{","}">> >>]]
      [] key = KeyCardB ->
            [type |-> "hash", memory |-> Some(80), ttl |-> 30,
             data |-> << <<"n","1">>, <<"s","2">>, <<"t","3">>, <<"u","4">> >>]
      [] key = KeyOracle ->
            [type |-> "string", memory |-> Some(64), ttl |-> -1,
             data |-> [present |-> TRUE, raw |-> <<"a","b","c">>,
                       loads |-> <<"invalid", <<>> >>]]
      [] OTHER ->
            [type |-> "none", memory |-> None, ttl |-> -2,
             data |-> [present |-> FALSE, raw |-> <<>>, loads |-> <<"invalid", <<>> >>]]

\* how the store answers a call: with a value or with an exception
Reply(raises) == IF raises THEN "raised" ELSE "ok"

\* the first command _get_sample_value sends for a value of each type
ReadCommand(key_type) ==
    CASE key_type = "string" -> <<"get">>
      [] key_type = "hash" -> <<"hgetall">>
      [] key_type = "list" -> <<"llen">>
      [] key_type = "set" -> <<"scard">>
      [] key_type = "zset" -> <<"zcard">>
      [] key_type = "stream" -> <<"xlen">>
      [] OTHER -> <<>>

PreviewLen == 200

SampleItems == 3

TextNone == <<"N","o","n","e">>

TextUnknownType == <<"U","n","k","n","o","w","n"," ","t","y","p","e">>

TextError == <<"e","r","r","o","r">>

\* a plausible slip: the decoded value sliced whatever its shape; the TypeError
\* of slicing an object, an array or a number is caught by the bare except of
\* line 165, which gives the raw preview
_get_sample_value_sliced(key_type, data, raises) ==
    IF raises /\ ReadCommand(key_type) # <<>>
    THEN [type |-> key_type, error |-> TextError]
    ELSE CASE key_type = "string" ->
                IF data.present /\ data.loads[1] = "str"
                THEN [type |-> "json", preview |-> SlicePrefix(data.loads[2], PreviewLen)]
                ELSE [type |-> "string",
                      preview |-> SlicePrefix(IF data.present THEN data.raw ELSE TextNone,
                                              PreviewLen)]
           [] key_type = "hash" ->
                [type |-> "hash", field_count |-> Len(data),
                 sample_fields |-> SlicePrefix(data, SampleItems)]
           [] key_type = "list" ->
                [type |-> "list", length |-> Len(data),
                 sample_items |-> SlicePrefix(data, SampleItems)]
           [] key_type = "set" ->
                [type |-> "set", size |-> Len(data),
                 sample_members |-> SlicePrefix(data, SampleItems)]
           [] key_type = "zset" ->
                [type |-> "zset", size |-> Len(data),
                 sample_members |-> SlicePrefix(data, SampleItems)]
           [] key_type = "stream" ->
                [type |-> "stream", length |-> Len(data)]
           [] OTHER ->
                [type |-> key_type, preview |-> TextUnknownType]

\* how much of the value the store sends for the commands of each branch, in
\* characters of a string and in elements of a collection: get and hgetall
\* return the whole value, sscan_iter iterates the whole set before the slice,
\* lrange and zrange return the elements 0 to 2, the other commands a number
StoreRead(key_type, data) ==
    CASE key_type = "string" -> IF data.present THEN Len(data.raw) ELSE 0
      [] key_type = "hash" -> Len(data)
      [] key_type = "list" -> Min(Len(data), SampleItems)
      [] key_type = "set" -> Len(data)
      [] key_type = "zset" -> Min(Len(data), SampleItems)
      [] OTHER -> 0

(***************************************************************************)
(* RedisKeyAnalyzer._get_sample_value.  `data` is what the store holds     *)
(* under the key and `raises` whether the store call of the branch raises. *)
(* A string value carries json.loads' verdict on it: "invalid", "str" (with *)
(* the decoded string) or "other" (with str() of the decoded value).       *)
(***************************************************************************)
_get_sample_value(key_type, data, raises) ==
    IF raises /\ ReadCommand(key_type) # <<>>
    THEN [type |-> key_type, error |-> TextError]
    ELSE CASE key_type = "string" ->
                IF data.present /\ data.loads[1] # "invalid"
                THEN [type |-> "json", preview |-> SlicePrefix(data.loads[2], PreviewLen)]
                ELSE [type |-> "string",
                      preview |-> SlicePrefix(IF data.present THEN data.raw ELSE TextNone,
                                              PreviewLen)]
           [] key_type = "hash" ->
                [type |-> "hash", field_count |-> Len(data),
                 sample_fields |-> SlicePrefix(data, SampleItems)]
           [] key_type = "list" ->
                [type |-> "list", length |-> Len(data),
                 sample_items |-> SlicePrefix(data, SampleItems)]
           [] key_type = "set" ->
                [type |-> "set", size |-> Len(data),
                 sample_members |-> SlicePrefix(data, SampleItems)]
           [] key_type = "zset" ->
                [type |-> "zset", size |-> Len(data),
                 sample_members |-> SlicePrefix(data, SampleItems)]
           [] key_type = "stream" ->
                [type |-> "stream", length |-> Len(data)]
           [] OTHER ->
                [type |-> key_type, preview |-> TextUnknownType]

(***************************************************************************)
(* RedisKeyAnalyzer._analyze_pattern, piece by piece                       *)
(***************************************************************************)
\* a plausible slip: the whole bucket is profiled
SampleKeysAll(keys, n) == keys

\* sample_keys = keys[:sample_size] if len(keys) > sample_size else keys
SampleKeys(keys, n) == IF Len(keys) > n THEN SlicePrefix(keys, n) ELSE keys

\* a plausible slip: the second test an `if` instead of an `elif`, so that its
\* else branch also runs for -1
TtlCountNoElif(info, ttl) ==
    IF ttl = -1 THEN [info EXCEPT !.no_ttl = @ + 1, !.with_ttl = @ + 1]
    ELSE IF ttl = -2 THEN [info EXCEPT !.expired = @ + 1]
    ELSE [info EXCEPT !.with_ttl = @ + 1]

\* a plausible slip: the key-absent sentinel -2 not told apart from a time to live
TtlCountNoSentinel(info, ttl) ==
    IF ttl = -1 THEN [info EXCEPT !.no_ttl = @ + 1]
    ELSE [info EXCEPT !.with_ttl = @ + 1]

\* the TTL histogram after one reply of the TTL query
TtlCount(info, ttl) ==
    IF ttl = -1 THEN [info EXCEPT !.no_ttl = @ + 1]
    ELSE IF ttl = -2 THEN [info EXCEPT !.expired = @ + 1]
    ELSE [info EXCEPT !.with_ttl = @ + 1]

RetainedKeys == 5

RetainedData == 3

RECURSIVE KeysOf(_)
\* [k['key'] for k in records]
KeysOf(records) ==
    IF records = <<>> THEN <<>> ELSE <<Head(records).key>> \o KeysOf(Tail(records))

\* a plausible slip: total_keys counts the sampled keys, not the bucket
PatternReportSampled(pattern, keys, data, tys, memory, ttls) ==
    [pattern |-> pattern,
     total_keys |-> Len(data),
     sample_size |-> Len(data),
     types |-> tys,
     total_memory_bytes |-> memory,
     avg_memory_bytes |-> IF data # <<>> THEN <<memory, Len(data)>> ELSE <<0, 1>>,
     ttl_info |-> ttls,
     sample_keys |-> KeysOf(SlicePrefix(data, RetainedKeys)),
     sample_data |-> SlicePrefix(data, RetainedData)]

\* the dict _analyze_pattern returns; avg_memory_bytes is the quotient
\* total_memory / len(sample_data) kept as <<numerator, denominator>>
PatternReport(pattern, keys, data, tys, memory, ttls) ==
    [pattern |-> pattern,
     total_keys |-> Len(keys),
     sample_size |-> Len(data),
     types |-> tys,
     total_memory_bytes |-> memory,
     avg_memory_bytes |-> IF data # <<>> THEN <<memory, Len(data)>> ELSE <<0, 1>>,
     ttl_info |-> ttls,
     sample_keys |-> KeysOf(SlicePrefix(data, RetainedKeys)),
     sample_data |-> SlicePrefix(data, RetainedData)]

\* the empty dict
EmptyReport == <<>>

RECURSIVE Summary(_)
\* what a caller reads of a result: each pattern with its total_keys
Summary(res) ==
    IF res = <<>> THEN <<>>
    ELSE <<[pattern |-> Head(res).pattern, total_keys |-> Head(res).total_keys]>>
         \o Summary(Tail(res))

(***************************************************************************)
(* Bounds of the analyzer runs                                             *)
(***************************************************************************)
\* most keys the scan returns
MaxKeys == 3

\* largest sample_size
MaxSample == 2

\* most profiling calls the store fails in one run
MaxFaults == 1

\* most calls of analyze_keys on one analyzer
MaxRuns == 2

RECURSIVE SeqsOfLen(_, _)
SeqsOfLen(S, n) ==
    IF n = 0 THEN {<<>>}
    ELSE {Append(q, x) : q \in SeqsOfLen(S, n - 1), x \in S}

SeqsUpTo(S, n) == UNION {SeqsOfLen(S, k) : k \in 0..n}

\* the generalizer harness is not running
GenIdle == gen_pc = "idle" /\ gen_key = <<>> /\ gen_pattern = <<>>

\* main has not exited, printed or caught anything and no interrupt was delivered
MainIdle == exit_code = None /\ printed = <<>> /\ caught = "none" /\ interrupted = FALSE

\* no function is being called on its own
FnIdle == fn_pc = "idle" /\ fn_args = <<>> /\ fn_out = <<>>

\* analyze_keys is not running
RunIdle ==
    /\ pc = "idle" /\ run = 0 /\ prev_summary = <<>>
    /\ sample_size = 0 /\ store_keys = <<>> /\ faults_left = 0
    /\ cursor = 0 /\ all_keys = <<>> /\ total_keys = 0
    /\ group_i = 0 /\ pattern_groups = <<>> /\ bucket_i = 0 /\ results = <<>>
    /\ sample_keys = <<>> /\ sample_i = 0 /\ types = <<>> /\ sample_data = <<>>
    /\ total_memory = 0
    /\ ttl_info = [with_ttl |-> 0, no_ttl |-> 0, expired |-> 0]
    /\ calls = <<>>
    /\ MainIdle

(***************************************************************************)
(* analyze_keys(sample_size) on a store, called up to MaxRuns times        *)
(***************************************************************************)
Init ==
    /\ GenIdle
    /\ pc = "scan" /\ run = 1 /\ prev_summary = <<>>
    /\ sample_size \in -1..MaxSample
    /\ store_keys \in SeqsUpTo(KeyPool, MaxKeys)
    /\ faults_left = MaxFaults
    /\ cursor = 0 /\ all_keys = <<>> /\ total_keys = 0
    /\ group_i = 0 /\ pattern_groups = <<>> /\ bucket_i = 0 /\ results = <<>>
    /\ sample_keys = <<>> /\ sample_i = 0 /\ types = <<>> /\ sample_data = <<>>
    /\ total_memory = 0
    /\ ttl_info = [with_ttl |-> 0, no_ttl |-> 0, expired |-> 0]
    /\ calls = <<>>
    /\ MainIdle
    /\ FnIdle

\* a plausible slip: `if cursor == 0: break` placed before all_keys.extend(keys),
\* the batch returned together with cursor 0 dropped
ScanCallBreakFirst ==
    /\ pc = "scan"
    /\ LET pos == IF cursor = 0 THEN 0 ELSE cursor - 1
       IN  \E n \in 0..(Len(store_keys) - pos), last \in BOOLEAN :
             LET keys == SubSeq(store_keys, pos + 1, pos + n)
                 next == IF pos + n = Len(store_keys) /\ last THEN 0 ELSE pos + n + 1
             IN  /\ cursor' = next
                 /\ all_keys' = IF next = 0 THEN all_keys ELSE all_keys \o keys
                 /\ total_keys' = IF next = 0 THEN total_keys ELSE total_keys + Len(keys)
                 /\ pc' = IF next = 0 THEN "scanned" ELSE "scan"
    /\ UNCHANGED <<gen_vars, fn_vars, main_vars, env_vars, pattern_vars, run, prev_summary,
                   faults_left, group_i, pattern_groups, bucket_i, results, calls>>

\* one iteration of the scan loop: the store resumes at the position the cursor
\* encodes, returns the next n keys and 0 once it has iterated every key
ScanCall ==
    /\ pc = "scan"
    /\ LET pos == IF cursor = 0 THEN 0 ELSE cursor - 1
       IN  \E n \in 0..(Len(store_keys) - pos), last \in BOOLEAN :
             LET keys == SubSeq(store_keys, pos + 1, pos + n)
                 next == IF pos + n = Len(store_keys) /\ last THEN 0 ELSE pos + n + 1
             IN  /\ cursor' = next
                 /\ all_keys' = all_keys \o keys
                 /\ total_keys' = total_keys + Len(keys)
                 /\ pc' = IF next = 0 THEN "scanned" ELSE "scan"
    /\ UNCHANGED <<gen_vars, fn_vars, main_vars, env_vars, pattern_vars, run, prev_summary, faults_left,
                   group_i, pattern_groups, bucket_i, results, calls>>

\* a plausible slip: the buckets live on the analyzer (self.patterns) and are
\* not created anew by each call
GroupStartShared ==
    /\ pc = "scanned"
    /\ group_i' = 1
    /\ pc' = "group"
    /\ UNCHANGED <<gen_vars, fn_vars, main_vars, env_vars, scan_vars, pattern_vars, run, prev_summary,
                   faults_left, pattern_groups, bucket_i, results, calls>>

\* pattern_groups = defaultdict(list), and the loop over all_keys is entered
GroupStart ==
    /\ pc = "scanned"
    /\ pattern_groups' = <<>>
    /\ group_i' = 1
    /\ pc' = "group"
    /\ UNCHANGED <<gen_vars, fn_vars, main_vars, env_vars, scan_vars, pattern_vars, run, prev_summary,
                   faults_left, bucket_i, results, calls>>

\* one iteration of `for key in all_keys`
GroupKey ==
    /\ pc = "group"
    /\ group_i <= Len(all_keys)
    /\ LET key == all_keys[group_i]
           pattern == _extract_pattern(key)
       IN  pattern_groups' = DictAppend(pattern_groups, pattern, key)
    /\ group_i' = group_i + 1
    /\ UNCHANGED <<gen_vars, fn_vars, main_vars, env_vars, scan_vars, pattern_vars, pc, run, prev_summary,
                   faults_left, bucket_i, results, calls>>

\* the loop over all_keys ends: results = {} and the loop over the buckets is entered
GroupEnd ==
    /\ pc = "group"
    /\ group_i > Len(all_keys)
    /\ results' = <<>>
    /\ bucket_i' = 1
    /\ pc' = "analyze"
    /\ UNCHANGED <<gen_vars, fn_vars, main_vars, env_vars, scan_vars, pattern_vars, run, prev_summary,
                   faults_left, group_i, pattern_groups, calls>>

\* _analyze_pattern is called on the next bucket: an empty key list returns {} at
\* once, otherwise the sample is chosen and the accumulators start empty
AnalyzeCall ==
    /\ pc = "analyze"
    /\ bucket_i <= Len(pattern_groups)
    /\ LET keys == pattern_groups[bucket_i].keys
       IN  IF keys = <<>>
           THEN /\ results' = Append(results, EmptyReport)
                /\ bucket_i' = bucket_i + 1
                /\ UNCHANGED <<pc, pattern_vars>>
           ELSE /\ sample_keys' = SampleKeys(keys, sample_size)
                /\ sample_i' = 1
                /\ types' = <<>>
                /\ sample_data' = <<>>
                /\ total_memory' = 0
                /\ ttl_info' = [with_ttl |-> 0, no_ttl |-> 0, expired |-> 0]
                /\ pc' = "profile"
                /\ UNCHANGED <<results, bucket_i>>
    /\ UNCHANGED <<gen_vars, fn_vars, main_vars, env_vars, scan_vars, run, prev_summary, faults_left,
                   group_i, pattern_groups, calls>>

\* a plausible slip: the loop body without its try/except, so that the first
\* store call that raises for a key leaves analyze_keys and reaches main
ProfileKeyUncaught ==
    /\ pc = "profile"
    /\ sample_i <= Len(sample_keys)
    /\ \E failed \in BOOLEAN :
         LET key == sample_keys[sample_i]
             held == Store(key)
             read == ReadCommand(held.type)
         IN  IF failed
             THEN /\ faults_left > 0
                  /\ faults_left' = faults_left - 1
                  /\ calls' = Append(calls, <<"type", key, "raised">>)
                  /\ pc' = "exit" /\ exit_code' = Some(1) /\ caught' = "profile"
                  /\ UNCHANGED <<types, total_memory, ttl_info, sample_data, sample_i>>
             ELSE /\ types' = CounterInc(types, held.type)
                  /\ total_memory' = total_memory
                         + (IF held.memory = None THEN 0 ELSE held.memory[1])
                  /\ ttl_info' = TtlCount(ttl_info, held.ttl)
                  /\ sample_data' = Append(sample_data,
                         [key |-> key, type |-> held.type, memory_bytes |-> held.memory,
                          ttl |-> held.ttl,
                          sample_value |-> _get_sample_value(held.type, held.data, FALSE)])
                  /\ calls' = calls \o <<<<"type", key, "ok">>, <<"memory_usage", key, "ok">>,
                                         <<"ttl", key, "ok">>>>
                                \o (IF read = <<>> THEN <<>> ELSE <<<<read[1], key, "ok">>>>)
                  /\ sample_i' = sample_i + 1
                  /\ UNCHANGED <<pc, exit_code, caught, faults_left>>
    /\ UNCHANGED <<gen_vars, fn_vars, env_vars, scan_vars, run, prev_summary, group_i,
                   pattern_groups, bucket_i, results, sample_keys, printed, interrupted>>

\* a plausible slip: the memory query without its own try/except, a raise of it
\* leaving the iteration through `except Exception` like a raise of the type query
ProfileKeyMemoryUncaught ==
    /\ pc = "profile"
    /\ sample_i <= Len(sample_keys)
    /\ \E fT, fM, fL, fV \in BOOLEAN :
         LET key == sample_keys[sample_i]
             held == Store(key)
             key_type == held.type
             nfaults == Cardinality({f \in {<<1, fT>>, <<2, fM>>, <<3, fL>>, <<4, fV>>} : f[2]})
             read == ReadCommand(key_type)
         IN  /\ nfaults <= faults_left
             /\ fT => ~fM /\ ~fL /\ ~fV
             /\ fM => ~fL /\ ~fV
             /\ fL => ~fV
             /\ fV => read # <<>>
             /\ faults_left' = faults_left - nfaults
             /\ IF fT
                THEN /\ calls' = Append(calls, <<"type", key, "raised">>)
                     /\ UNCHANGED <<types, total_memory, ttl_info, sample_data>>
                ELSE IF fM
                THEN /\ types' = CounterInc(types, key_type)
                     /\ calls' = calls \o <<<<"type", key, "ok">>,
                                            <<"memory_usage", key, "raised">>>>
                     /\ UNCHANGED <<total_memory, ttl_info, sample_data>>
                ELSE /\ types' = CounterInc(types, key_type)
                     /\ total_memory' = total_memory
                            + (IF held.memory = None THEN 0 ELSE held.memory[1])
                     /\ IF fL
                        THEN /\ calls' = calls \o <<<<"type", key, "ok">>,
                                    <<"memory_usage", key, "ok">>, <<"ttl", key, "raised">>>>
                             /\ UNCHANGED <<ttl_info, sample_data>>
                        ELSE /\ ttl_info' = TtlCount(ttl_info, held.ttl)
                             /\ sample_data' = Append(sample_data,
                                    [key |-> key, type |-> key_type,
                                     memory_bytes |-> held.memory, ttl |-> held.ttl,
                                     sample_value |-> _get_sample_value(key_type, held.data, fV)])
                             /\ calls' = calls \o <<<<"type", key, "ok">>,
                                    <<"memory_usage", key, "ok">>, <<"ttl", key, "ok">>>>
                                    \o (IF read = <<>> THEN <<>> ELSE <<<<read[1], key, Reply(fV)>>>>)
    /\ sample_i' = sample_i + 1
    /\ UNCHANGED <<gen_vars, fn_vars, main_vars, env_vars, scan_vars, pc, run, prev_summary,
                   group_i, pattern_groups, bucket_i, results, sample_keys>>

\* one iteration of `for key in sample_keys`.  The store may raise in the type
\* query (fT), the memory query (fM), the TTL query (fL) or the value read (fV),
\* within its budget of failures.  A raise of the type or TTL query leaves the
\* iteration through `except Exception`; a raise of the memory query is caught
\* by the inner `except`; a raise of the value read is caught in _get_sample_value.
ProfileKey ==
    /\ pc = "profile"
    /\ sample_i <= Len(sample_keys)
    /\ \E fT, fM, fL, fV \in BOOLEAN :
         LET key == sample_keys[sample_i]
             held == Store(key)
             key_type == held.type
             nfaults == Cardinality({f \in {<<1, fT>>, <<2, fM>>, <<3, fL>>, <<4, fV>>} : f[2]})
             memory == IF fM THEN None ELSE held.memory
             ttl == held.ttl
             sample_value == _get_sample_value(key_type, held.data, fV)
             read == ReadCommand(key_type)
         IN  /\ nfaults <= faults_left
             /\ fT => ~fM /\ ~fL /\ ~fV
             /\ fL => ~fV
             /\ fV => read # <<>>
             /\ faults_left' = faults_left - nfaults
             /\ IF fT
                THEN /\ calls' = Append(calls, <<"type", key, "raised">>)
                     /\ UNCHANGED <<types, total_memory, ttl_info, sample_data>>
                ELSE /\ types' = CounterInc(types, key_type)
                     /\ total_memory' = total_memory + (IF memory = None THEN 0 ELSE memory[1])
                     /\ IF fL
                        THEN /\ calls' = calls \o <<<<"type", key, "ok">>,
                                                    <<"memory_usage", key, Reply(fM)>>, <<"ttl", key, "raised">>>>
                             /\ UNCHANGED <<ttl_info, sample_data>>
                        ELSE /\ ttl_info' = TtlCount(ttl_info, ttl)
                             /\ sample_data' = Append(sample_data,
                                    [key |-> key, type |-> key_type, memory_bytes |-> memory,
                                     ttl |-> ttl, sample_value |-> sample_value])
                             /\ calls' = calls \o <<<<"type", key, "ok">>,
                                                    <<"memory_usage", key, Reply(fM)>>, <<"ttl", key, "ok">>>>
                                           \o (IF read = <<>> THEN <<>> ELSE <<<<read[1], key, Reply(fV)>>>>)
    /\ sample_i' = sample_i + 1
    /\ UNCHANGED <<gen_vars, fn_vars, main_vars, env_vars, scan_vars, pc, run, prev_summary, group_i,
                   pattern_groups, bucket_i, results, sample_keys>>

\* a plausible slip: the sample written back over the bucket it was taken from
PatternReturnTrimsBucket ==
    /\ pc = "profile"
    /\ sample_i > Len(sample_keys)
    /\ LET bucket == pattern_groups[bucket_i]
       IN  /\ results' = Append(results,
                  PatternReport(bucket.pattern, bucket.keys, sample_data, types,
                                total_memory, ttl_info))
           /\ pattern_groups' = [pattern_groups EXCEPT ![bucket_i].keys = sample_keys]
    /\ bucket_i' = bucket_i + 1
    /\ pc' = "analyze"
    /\ UNCHANGED <<gen_vars, fn_vars, main_vars, env_vars, scan_vars, pattern_vars, run,
                   prev_summary, faults_left, group_i, calls>>

\* the loop over the sample ends: the report is built and stored under the pattern
PatternReturn ==
    /\ pc = "profile"
    /\ sample_i > Len(sample_keys)
    /\ LET bucket == pattern_groups[bucket_i]
       IN  results' = Append(results,
               PatternReport(bucket.pattern, bucket.keys, sample_data, types,
                             total_memory, ttl_info))
    /\ bucket_i' = bucket_i + 1
    /\ pc' = "analyze"
    /\ UNCHANGED <<gen_vars, fn_vars, main_vars, env_vars, scan_vars, pattern_vars, run, prev_summary,
                   faults_left, group_i, pattern_groups, calls>>

\* the loop over the buckets ends: return results
AnalyzeEnd ==
    /\ pc = "analyze"
    /\ bucket_i > Len(pattern_groups)
    /\ pc' = "returned"
    /\ UNCHANGED <<gen_vars, fn_vars, main_vars, env_vars, scan_vars, pattern_vars, run, prev_summary,
                   faults_left, group_i, pattern_groups, bucket_i, results, calls>>

\* the caller keeps what it read of the result and calls analyze_keys again on
\* the same analyzer and the same store: lines 35-37 run anew, the locals of the
\* finished call are gone
CallAgain ==
    /\ pc = "returned"
    /\ run < MaxRuns
    /\ run' = run + 1
    /\ prev_summary' = Summary(results)
    /\ faults_left' = MaxFaults
    /\ cursor' = 0 /\ all_keys' = <<>> /\ total_keys' = 0
    /\ results' = <<>> /\ bucket_i' = 0 /\ group_i' = 0
    /\ sample_keys' = <<>> /\ sample_i' = 0 /\ types' = <<>> /\ sample_data' = <<>>
    /\ total_memory' = 0
    /\ ttl_info' = [with_ttl |-> 0, no_ttl |-> 0, expired |-> 0]
    /\ calls' = <<>>
    /\ pc' = "scan"
    /\ UNCHANGED <<gen_vars, fn_vars, main_vars, env_vars, pattern_groups>>

Next ==
    \/ ScanCall
    \/ GroupStart
    \/ GroupKey
    \/ GroupEnd
    \/ AnalyzeCall
    \/ ProfileKey
    \/ PatternReturn
    \/ AnalyzeEnd
    \/ CallAgain

Spec == Init /\ [][Next]_vars

(***************************************************************************)
(* Inputs of the generalizer: keys built from a prefix and a final segment *)
(***************************************************************************)
\* longest run of one character in a generated segment
MaxRunLen == 4

Rep(c, n) == [i \in 1..n |-> c]

RunChars == {"7", "A", "b", "-", "_", "."}

\* segments of at most two runs: digits, upper case, lower case, mixed, punctuation
RunSegs ==
    { Rep(c1, n1) \o Rep(c2, n2) :
        c1 \in RunChars, n1 \in 0..MaxRunLen, c2 \in RunChars, n2 \in 0..MaxRunLen }

UuidDeltas == {-1, 0, 1}

\* UUID-shaped segments and their near misses: group lengths off by one, one
\* separator that is not a hyphen, one hyphen too many
UuidSegs ==
    { Rep(f, 8 + d[1]) \o <<"-">> \o Rep(f, 4 + d[2]) \o <<"-">> \o Rep(f, 4 + d[3])
        \o <<sep>> \o Rep(f, 4 + d[4]) \o <<"-">> \o Rep(f, 12 + d[5]) \o tail :
        d \in [1..5 -> UuidDeltas], f \in {"a", "0"}, sep \in {"-", "_"},
        tail \in {<<>>, <<"-">>} }

LiteralSegs ==
    { <<"a","1","b","2","c","3","d","4","-","e","5","f","6","-","7","8","9","0","-","a","b","c","d","-","e","f","1","2","3","4","5","6","7","8","9","0">>,
      <<"x","y","z","1","2","3">>, <<"1","2","3","4","5","6","7">>,
      <<"A","B","C">>, <<"A","B","C","D">>, <<"A","1","B">>,
      <<"c","a","r","d","s">>, <<"m","e","t","a">>,
      <<"{","u","u","i","d","}">>, <<"{","s","k","u","_","i","d","}">>,
      <<"{","s","e","t","_","c","o","d","e","}">>, <<"{","i","d","}">> }

\* the segments before the final one; <<>> makes a key of a single segment
PrefixPool ==
    { <<>>,
      << <<"c","a","r","d">> >>,
      << <<"c","a","r","d">>, <<"o","r","a","c","l","e">> >>,
      << <<"s","e","t">>, <<"A","B","C","D">> >>,
      << <<>> >> }

KeyInputs ==
    { join(":", pre \o <<seg>>) :
        pre \in PrefixPool, seg \in RunSegs \cup UuidSegs \cup LiteralSegs }

(***************************************************************************)
(* The generalizer called on one key                                       *)
(***************************************************************************)
InitPattern ==
    /\ RunIdle
    /\ FnIdle
    /\ gen_pc = "call"
    /\ gen_key \in KeyInputs
    /\ gen_pattern = <<>>

ExtractCall ==
    /\ gen_pc = "call"
    /\ gen_pattern' = _extract_pattern(gen_key)
    /\ gen_pc' = "done"
    /\ UNCHANGED <<gen_key, fn_vars, main_vars, env_vars, scan_vars, pattern_vars, pc, run, prev_summary,
                   faults_left, group_i, pattern_groups, bucket_i, results, calls>>

NextPattern == ExtractCall

SpecPattern == InitPattern /\ [][NextPattern]_vars

(***************************************************************************)
(* Properties of the generalizer                                           *)
(***************************************************************************)
\* index of the last colon of a key, 0 when it has none
LastColon(key) ==
    LET at == {i \in 1..Len(key) : key[i] = ":"}
    IN  IF at = {} THEN 0 ELSE CHOOSE i \in at : \A j \in at : j <= i

\* the text after the last colon and the text before it
FinalSegment(key) == SubSeq(key, LastColon(key) + 1, Len(key))

PrefixText(key) == SubSeq(key, 1, LastColon(key) - 1)

\* 36 characters with hyphens at positions 9, 14, 19 and 24 and nowhere else
UuidShaped(s) ==
    /\ Len(s) = 36
    /\ \A i \in 1..36 : (s[i] = "-") <=> (i \in {9, 14, 19, 24})

AllDigits(s) == s # <<>> /\ \A i \in 1..Len(s) : s[i] \in Digits

UpperLetters(s) == \A i \in 1..Len(s) : s[i] \in Upper

\* letters, digits, underscores and hyphens only, with a letter or digit among them
IdShaped(s) ==
    /\ \A i \in 1..Len(s) : s[i] \in (Lower \cup Upper \cup Digits \cup {"_", "-"})
    /\ \E i \in 1..Len(s) : s[i] \in (Lower \cup Upper \cup Digits)

\* C3: on a key of at least two segments the first rule the final segment
\* satisfies, in the order uuid, sku_id, set_code, id, gives the placeholder: a
\* UUID-shaped segment yields {uuid}, an all-digit segment longer than 6 yields
\* {sku_id} and not {id}, a segment of 3 or 4 upper-case letters yields
\* {set_code} and not {id}, and {id} is given only to an identifier that none
\* of the three earlier tests accepts.
C3_RulePrecedence ==
    (gen_pc = "done" /\ LastColon(gen_key) > 0) =>
        LET seg == FinalSegment(gen_key)
            pre == PrefixText(gen_key)
        IN  /\ UuidShaped(seg) => gen_pattern = pre \o SfxUuid
            /\ (AllDigits(seg) /\ Len(seg) > 6) =>
                   (gen_pattern = pre \o SfxSkuId /\ gen_pattern # pre \o SfxId)
            /\ (Len(seg) \in {3, 4} /\ UpperLetters(seg)) =>
                   (gen_pattern = pre \o SfxSetCode /\ gen_pattern # pre \o SfxId)
            /\ (/\ IdShaped(seg)
                /\ ~UuidShaped(seg)
                /\ ~(AllDigits(seg) /\ Len(seg) > 6)
                /\ ~(Len(seg) \in {3, 4} /\ isupper(seg))) =>
                   gen_pattern = pre \o SfxId

C3_Witness ==
    /\ gen_pc = "done"
    /\ LastColon(gen_key) > 0
    /\ AllDigits(FinalSegment(gen_key))
    /\ Len(FinalSegment(gen_key)) > 6
    /\ gen_pattern = PrefixText(gen_key) \o SfxSkuId

\* C4: a key without a colon (fewer than 2 segments) is returned unchanged,
\* whatever its content.
C4_SingleSegmentUnchanged ==
    (gen_pc = "done" /\ LastColon(gen_key) = 0) => gen_pattern = gen_key

C4_Witness ==
    /\ gen_pc = "done"
    /\ LastColon(gen_key) = 0
    /\ UuidShaped(gen_key)
    /\ gen_pattern = gen_key

\* C5: on a key of at least two segments a UUID-shaped final segment is replaced
\* by {uuid} after the unchanged prefix, and a final segment of any other shape
\* is never replaced by {uuid}.
C5_UuidRule ==
    (gen_pc = "done" /\ LastColon(gen_key) > 0) =>
        LET seg == FinalSegment(gen_key)
            pre == PrefixText(gen_key)
        IN  IF UuidShaped(seg)
            THEN gen_pattern = pre \o SfxUuid
            ELSE gen_pattern = pre \o SfxUuid => gen_pattern = gen_key

C5_Witness ==
    /\ gen_pc = "done"
    /\ LastColon(gen_key) > 0
    /\ PrefixText(gen_key) = <<"c","a","r","d",":","o","r","a","c","l","e">>
    /\ UuidShaped(FinalSegment(gen_key))
    /\ gen_pattern = PrefixText(gen_key) \o SfxUuid

(***************************************************************************)
(* Properties of analyze_keys and _analyze_pattern                         *)
(***************************************************************************)
\* how often a key occurs in a sequence of keys
Occurrences(keys, k) == Cardinality({i \in 1..Len(keys) : keys[i] = k})

RECURSIVE SumTotalKeys(_)
SumTotalKeys(res) ==
    IF res = <<>> THEN 0 ELSE Head(res).total_keys + SumTotalKeys(Tail(res))

RECURSIVE SumBucketOccurrences(_, _)
SumBucketOccurrences(groups, k) ==
    IF groups = <<>> THEN 0
    ELSE Occurrences(Head(groups).keys, k) + SumBucketOccurrences(Tail(groups), k)

\* the generalized pattern of each key the store may hold
PatternOf == [k \in KeyPool |-> _extract_pattern(k)]

\* the keys grouped so far, while the grouping loop runs and after the call
Grouped ==
    IF pc = "group" THEN SubSeq(all_keys, 1, group_i - 1) ELSE all_keys

\* C1: grouping is a total partition of the scanned keys, with multiplicity:
\* the buckets have distinct patterns, every key of a bucket generalizes to the
\* bucket's pattern, every key is in the buckets exactly as often as the scan
\* returned it (at every step of the grouping loop and when the call returns),
\* and the total_keys of the reports add up to the number of keys the scan
\* returned.
C1_GroupingPartition ==
    (pc \in {"group", "returned"}) =>
        /\ \A i, j \in 1..Len(pattern_groups) :
               pattern_groups[i].pattern = pattern_groups[j].pattern => i = j
        /\ \A i \in 1..Len(pattern_groups) : \A j \in 1..Len(pattern_groups[i].keys) :
               PatternOf[pattern_groups[i].keys[j]] = pattern_groups[i].pattern
        /\ \A k \in KeyPool :
               SumBucketOccurrences(pattern_groups, k) = Occurrences(Grouped, k)
        /\ pc = "returned" =>
               /\ all_keys = store_keys
               /\ total_keys = Len(store_keys)
               /\ SumTotalKeys(results) = Len(store_keys)

C1_Witness ==
    /\ pc = "returned"
    /\ store_keys = <<KeyCardA, KeyMeta, KeyCardA>>
    /\ Len(results) = 2
    /\ SumTotalKeys(results) = 3

\* C2: the total_keys of every report is the size of its bucket, whatever the
\* sample size and whichever profiling calls failed.
C2_TotalKeysIsBucketSize ==
    \A i \in 1..Len(results) :
        /\ results[i] # EmptyReport
        /\ results[i].pattern = pattern_groups[i].pattern
        /\ results[i].total_keys = Len(pattern_groups[i].keys)

C2_Witness ==
    /\ sample_size = 2
    /\ faults_left < MaxFaults
    /\ \E i \in 1..Len(results) :
           results[i].total_keys = 2 /\ results[i].sample_size = 1

RECURSIVE SumCounter(_)
SumCounter(c) ==
    IF DOMAIN c = {} THEN 0
    ELSE LET t == CHOOSE x \in DOMAIN c : TRUE
         IN  c[t] + SumCounter([x \in DOMAIN c \ {t} |-> c[x]])

RECURSIVE SumMemory(_)
SumMemory(records) ==
    IF records = <<>> THEN 0
    ELSE (IF Head(records).memory_bytes = None THEN 0 ELSE Head(records).memory_bytes[1])
         + SumMemory(Tail(records))

\* C6: a key whose profiling raised contributes nothing to the report: the type
\* histogram and the TTL histogram count exactly the retained samples, and the
\* memory total is the sum over the retained samples.
C6_FailedKeyExcluded ==
    \A i \in 1..Len(results) :
        LET r == results[i]
        IN  /\ SumCounter(r.types) = r.sample_size
            /\ r.ttl_info.with_ttl + r.ttl_info.no_ttl + r.ttl_info.expired = r.sample_size
            /\ r.sample_size <= RetainedData =>
                   r.total_memory_bytes = SumMemory(r.sample_data)

\* the samples of a report whose memory estimate is present
Measured(records) == Cardinality({j \in 1..Len(records) : records[j].memory_bytes # None})

\* C7: avg_memory_bytes is total_memory_bytes divided by the number of samples
\* with a memory estimate (0 when there is none).
C7_AvgOverMeasured ==
    \A i \in 1..Len(results) :
        LET r == results[i]
            m == Measured(r.sample_data)
        IN  r.sample_size <= RetainedData =>
                IF m = 0 THEN r.avg_memory_bytes[1] = 0
                ELSE r.avg_memory_bytes[1] * m = r.total_memory_bytes * r.avg_memory_bytes[2]

RECURSIVE TypeCallKeys(_)
\* the keys of the type queries of a call log, in order
TypeCallKeys(log) ==
    IF log = <<>> THEN <<>>
    ELSE (IF Head(log)[1] = "type" THEN <<Head(log)[2]>> ELSE <<>>)
         \o TypeCallKeys(Tail(log))

RECURSIVE FirstOfEachBucket(_, _)
\* the first min(n, size) keys of every bucket, bucket after bucket
FirstOfEachBucket(groups, n) ==
    IF groups = <<>> THEN <<>>
    ELSE SubSeq(Head(groups).keys, 1, Min(n, Len(Head(groups).keys)))
         \o FirstOfEachBucket(Tail(groups), n)

\* C8: for sample_size >= 0 the keys profiled are the first min(sample_size,
\* bucket size) keys of each bucket, each once and in bucket order, and every
\* other call the store receives is for the key whose type was queried last.
C8_SampleIsBucketPrefix ==
    (pc = "returned" /\ sample_size >= 0) =>
        /\ \A i \in 1..Len(calls) :
               calls[i][1] # "type" => (i > 1 /\ calls[i - 1][2] = calls[i][2])
        /\ TypeCallKeys(calls) = FirstOfEachBucket(pattern_groups, sample_size)

C8_Witness ==
    /\ pc = "returned"
    /\ sample_size = 1
    /\ store_keys = <<KeyCardA, KeyCardB, KeyOracle>>
    /\ TypeCallKeys(calls) = <<KeyCardA, KeyOracle>>

\* C9: a second call of analyze_keys on the same analyzer and the same store
\* returns the same patterns with the same total_keys as the call before it.
C9_SecondRunSameGrouping ==
    (pc = "returned" /\ run >= 2) => Summary(results) = prev_summary

C9_Witness ==
    /\ pc = "returned"
    /\ run = 2
    /\ Len(prev_summary) = 2
    /\ \E i \in 1..Len(results) : results[i].total_keys = 2

PatternCardUuid == <<"c","a","r","d",":","{","u","u","i","d","}">>

PatternCardOracleId == <<"c","a","r","d",":","o","r","a","c","l","e",":","{","i","d","}">>

\* the scan returned exactly the three keys of the scenario, in some order
ScenarioScanned ==
    /\ Len(store_keys) = 3
    /\ {store_keys[i] : i \in 1..3} = {KeyCardA, KeyCardB, KeyOracle}

\* C10: scanning the two card:<uuid> keys and card:oracle:xyz123 yields exactly
\* two patterns, card:{uuid} with total_keys 2 and card:oracle:{id} with
\* total_keys 1.
C10_ScenarioTwoPatterns ==
    (pc = "returned" /\ ScenarioScanned) =>
        /\ Len(results) = 2
        /\ {<<results[i].pattern, results[i].total_keys>> : i \in 1..Len(results)}
               = {<<PatternCardUuid, 2>>, <<PatternCardOracleId, 1>>}

C10_Witness ==
    /\ pc = "returned"
    /\ store_keys = <<KeyCardA, KeyOracle, KeyCardB>>
    /\ Len(results) = 2
    /\ results[1].pattern = PatternCardUuid


(***************************************************************************)
(* Further properties of the generalizer                                   *)
(***************************************************************************)
KeySetCards == <<"s","e","t",":","A","B","C","D",":","c","a","r","d","s">>

\* C11 as stated: the key set:ABCD:cards generalizes to set:{set_code}:cards.
C11_SetCardsMiddleSegment ==
    (gen_pc = "done" /\ gen_key = KeySetCards) =>
        gen_pattern = <<"s","e","t",":","{","s","e","t","_","c","o","d","e","}",":","c","a","r","d","s">>

\* C11 amended: only the final segment is classified, so set:ABCD:cards keeps
\* its segment ABCD and its final segment cards, an identifier, becomes {id}:
\* the pattern is set:ABCD:{id}.
C11_SetCardsFinalSegment ==
    (gen_pc = "done" /\ gen_key = KeySetCards) =>
        gen_pattern = <<"s","e","t",":","A","B","C","D",":","{","i","d","}">>

C11_Witness ==
    /\ gen_pc = "done"
    /\ gen_key = KeySetCards
    /\ gen_pattern # gen_key

\* the final segment is neither UUID-shaped nor an all-digit string longer than 6
NotUuidNorSku(seg) == ~UuidShaped(seg) /\ ~(AllDigits(seg) /\ Len(seg) > 6)

\* the final segment was replaced by {set_code}
SetCodeGiven == gen_pattern = PrefixText(gen_key) \o SfxSetCode /\ gen_pattern # gen_key

\* what str.isupper accepts: a cased character is present and none is lower case
HasUpperNoLower(s) ==
    /\ \E i \in 1..Len(s) : s[i] \in Upper
    /\ \A i \in 1..Len(s) : s[i] \notin Lower

\* C12 as stated: with a final segment that is neither a uuid nor a sku_id, the
\* segment is replaced by {set_code} if and only if it has length 3 or 4 and
\* consists entirely of upper-case letters.
C12_SetCodeIffUpperAlpha ==
    (gen_pc = "done" /\ LastColon(gen_key) > 0 /\ NotUuidNorSku(FinalSegment(gen_key))) =>
        (SetCodeGiven <=>
            (Len(FinalSegment(gen_key)) \in {3, 4} /\ UpperLetters(FinalSegment(gen_key))))

\* C12 amended: with a final segment that is neither a uuid nor a sku_id, the
\* segment is replaced by {set_code} if and only if it has length 3 or 4,
\* contains at least one upper-case letter and contains no lower-case letter;
\* digits and punctuation are accepted beside the letters.
C12_SetCodeIffIsUpper ==
    (gen_pc = "done" /\ LastColon(gen_key) > 0 /\ NotUuidNorSku(FinalSegment(gen_key))) =>
        (SetCodeGiven <=>
            (Len(FinalSegment(gen_key)) \in {3, 4} /\ HasUpperNoLower(FinalSegment(gen_key))))

C12_Witness ==
    /\ gen_pc = "done"
    /\ LastColon(gen_key) > 0
    /\ FinalSegment(gen_key) = <<"A","7","7">>
    /\ SetCodeGiven

\* alphanumerics, underscores and hyphens only, at least one character
IdCharsOnly(s) ==
    /\ s # <<>>
    /\ \A i \in 1..Len(s) : s[i] \in (Lower \cup Upper \cup Digits \cup {"_", "-"})

\* C13 as stated: a non-empty final segment of alphanumerics, underscores and
\* hyphens that is no uuid, no sku_id and no set_code (3 or 4 upper-case
\* letters) gives the prefix followed by :{id}.
C13_IdForIdentifierChars ==
    (gen_pc = "done" /\ LastColon(gen_key) > 0) =>
        LET seg == FinalSegment(gen_key)
        IN  (/\ IdCharsOnly(seg)
             /\ NotUuidNorSku(seg)
             /\ ~(Len(seg) \in {3, 4} /\ UpperLetters(seg))) =>
                gen_pattern = PrefixText(gen_key) \o SfxId

\* C13 amended: a final segment of alphanumerics, underscores and hyphens that
\* contains at least one alphanumeric and is no uuid, no sku_id and no set_code
\* as tested (length 3 or 4 with an upper-case letter and no lower-case letter)
\* gives the prefix followed by :{id}; no other final segment is replaced by {id}.
C13_IdForIdentifier ==
    (gen_pc = "done" /\ LastColon(gen_key) > 0) =>
        LET seg == FinalSegment(gen_key)
        IN  (/\ IdCharsOnly(seg)
             /\ \E i \in 1..Len(seg) : seg[i] \in (Lower \cup Upper \cup Digits)
             /\ NotUuidNorSku(seg)
             /\ ~(Len(seg) \in {3, 4} /\ HasUpperNoLower(seg)))
            <=> (gen_pattern = PrefixText(gen_key) \o SfxId /\ gen_pattern # gen_key)

C13_Witness ==
    /\ gen_pc = "done"
    /\ LastColon(gen_key) > 0
    /\ FinalSegment(gen_key) = <<"b","b","_","_">>
    /\ gen_pattern = PrefixText(gen_key) \o SfxId

Placeholders == {SfxUuid, SfxSkuId, SfxSetCode, SfxId}

\* C14: the result is the key itself or the key with its final segment replaced
\* by one of the four placeholders: the segments before the final one and the
\* number of segments are those of the key.
C14_OnlyFinalSegmentReplaced ==
    gen_pc = "done" =>
        LET before == split(gen_key, ":")
            after == split(gen_pattern, ":")
        IN  /\ \/ gen_pattern = gen_key
               \/ /\ LastColon(gen_key) > 0
                  /\ \E sfx \in Placeholders : gen_pattern = PrefixText(gen_key) \o sfx
            /\ Len(after) = Len(before)
            /\ \A i \in 1..(Len(before) - 1) : after[i] = before[i]

C14_Witness ==
    /\ gen_pc = "done"
    /\ PrefixText(gen_key) = <<"s","e","t",":","A","B","C","D">>
    /\ FinalSegment(gen_key) = <<"7","7","7","7","A","A","A">>
    /\ gen_pattern = PrefixText(gen_key) \o SfxId


(***************************************************************************)
(* main(): connect, ping, analyze_keys, report, exit                       *)
(***************************************************************************)
\* a plausible slip: reverse=True left out, the sort ascending
RECURSIVE InsertByTotalKeysAscending(_, _)
InsertByTotalKeysAscending(sorted, item) ==
    IF sorted = <<>> THEN <<item>>
    ELSE IF Head(sorted).total_keys <= item.total_keys
         THEN <<Head(sorted)>> \o InsertByTotalKeysAscending(Tail(sorted), item)
         ELSE <<item>> \o sorted

\* sorted(analysis.items(), key=lambda x: x[1]['total_keys'], reverse=True):
\* descending and stable, items of equal count keep their insertion order
RECURSIVE InsertByTotalKeys(_, _)
InsertByTotalKeys(sorted, item) ==
    IF sorted = <<>> THEN <<item>>
    ELSE IF Head(sorted).total_keys >= item.total_keys
         THEN <<Head(sorted)>> \o InsertByTotalKeys(Tail(sorted), item)
         ELSE <<item>> \o sorted

RECURSIVE SortedPatterns(_)
SortedPatterns(analysis) ==
    IF analysis = <<>> THEN <<>>
    ELSE InsertByTotalKeys(SortedPatterns(SubSeq(analysis, 1, Len(analysis) - 1)),
                           analysis[Len(analysis)])

\* a plausible slip: the summary also prints an average per pattern, a division
\* by len(analysis)
ReportRaisesOnEmpty(analysis) ==
    analysis = <<>> \/ \E i \in 1..Len(analysis) : analysis[i] = EmptyReport

\* both formats read data['total_keys'] of every value of the result: a value
\* without that field ({}) raises KeyError
ReportRaises(analysis) == \E i \in 1..Len(analysis) : analysis[i] = EmptyReport

\* what the report shows: the totals of its summary and one line per pattern in
\* sorted order; the search-index section follows the detailed format only
Report(analysis, format, search) ==
    [format |-> format,
     total_keys |-> SumTotalKeys(analysis),
     patterns |-> Len(analysis),
     lines |-> [i \in 1..Len(analysis) |->
                  <<SortedPatterns(analysis)[i].pattern, SortedPatterns(analysis)[i].total_keys>>],
     search |-> IF format = "detailed" THEN search ELSE "skipped"]

\* the state analyze_keys starts from when main calls it once
InitMain ==
    /\ GenIdle
    /\ pc = "connect" /\ run = 1 /\ prev_summary = <<>>
    /\ sample_size \in -1..MaxSample
    /\ store_keys \in SeqsUpTo(KeyPool, MaxKeys)
    /\ faults_left = MaxFaults
    /\ cursor = 0 /\ all_keys = <<>> /\ total_keys = 0
    /\ group_i = 0 /\ pattern_groups = <<>> /\ bucket_i = 0 /\ results = <<>>
    /\ sample_keys = <<>> /\ sample_i = 0 /\ types = <<>> /\ sample_data = <<>>
    /\ total_memory = 0
    /\ ttl_info = [with_ttl |-> 0, no_ttl |-> 0, expired |-> 0]
    /\ calls = <<>>
    /\ MainIdle
    /\ FnIdle

\* the connectivity check: ping answers, or raises redis.ConnectionError (caught
\* at line 341) or another exception (caught at line 345); both handlers exit 1
Connect ==
    /\ pc = "connect"
    /\ \E answer \in {"pong", "ConnectionError", "Exception"} :
         IF answer = "pong"
         THEN pc' = "scan" /\ UNCHANGED <<exit_code, caught>>
         ELSE pc' = "exit" /\ exit_code' = Some(1) /\ caught' = "ping"
    /\ UNCHANGED <<gen_vars, fn_vars, env_vars, scan_vars, pattern_vars, run, prev_summary,
                   faults_left, group_i, pattern_groups, bucket_i, results, calls,
                   printed, interrupted>>

\* a plausible slip: the scan loop wrapped in try/except, the keys received so
\* far analysed as if the scan had completed
ScanRaiseSalvaged ==
    /\ pc = "scan"
    /\ pc' = "scanned"
    /\ caught' = "scan"
    /\ UNCHANGED <<gen_vars, fn_vars, env_vars, scan_vars, pattern_vars, run, prev_summary,
                   faults_left, group_i, pattern_groups, bucket_i, results, calls,
                   exit_code, printed, interrupted>>

\* a scan call raises: nothing in analyze_keys catches it, it leaves the call
\* with the keys received so far and reaches main's except clauses, which exit 1
ScanRaise ==
    /\ pc = "scan"
    /\ pc' = "exit"
    /\ exit_code' = Some(1)
    /\ caught' = "scan"
    /\ UNCHANGED <<gen_vars, fn_vars, env_vars, scan_vars, pattern_vars, run, prev_summary,
                   faults_left, group_i, pattern_groups, bucket_i, results, calls,
                   printed, interrupted>>

\* analyze_keys has returned: the report is printed in the chosen format, the
\* search-index section with whatever the introspection command gave (it catches
\* its own exceptions), and main returns.  parse_args (line 305) exits on the
\* argument --export, which it does not declare, so lines 336-339 never run.
PrintReport ==
    /\ pc = "returned"
    /\ \E format \in {"detailed", "summary"}, search \in {"unavailable", "none", "listed"} :
         IF ReportRaises(results)
         THEN exit_code' = Some(1) /\ caught' = "report" /\ UNCHANGED printed
         ELSE /\ printed' = Report(results, format, search)
              /\ exit_code' = Some(0)
              /\ UNCHANGED caught
    /\ pc' = "exit"
    /\ UNCHANGED <<gen_vars, fn_vars, env_vars, scan_vars, pattern_vars, run, prev_summary,
                   faults_left, group_i, pattern_groups, bucket_i, results, calls,
                   interrupted>>


(***************************************************************************)
(* The operator's interrupt and a store that stops answering               *)
(***************************************************************************)
\* KeyboardInterrupt raised in the ping or in a scan call.  It is no Exception:
\* the except clauses of main (lines 341 and 345) let it through and the
\* interpreter ends the process.
OperatorInterrupt ==
    /\ ~interrupted
    /\ pc \in {"connect", "scan", "blocked"}
    /\ interrupted' = TRUE
    /\ pc' = "killed"
    /\ UNCHANGED <<gen_vars, fn_vars, env_vars, scan_vars, pattern_vars, run, prev_summary,
                   faults_left, group_i, pattern_groups, bucket_i, results, calls,
                   exit_code, printed, caught>>

\* KeyboardInterrupt raised in one of the four store calls made for a sampled
\* key.  In the type query, the TTL query and the value read it passes the
\* `except Exception` clauses (lines 141 and 194) and ends the process; in the
\* memory query the bare `except:` of line 118 catches it, memory becomes None
\* and the iteration goes on.
ProfileInterrupt ==
    /\ ~interrupted
    /\ pc = "profile"
    /\ sample_i <= Len(sample_keys)
    /\ interrupted' = TRUE
    /\ \E at \in {"type", "memory_usage", "ttl", "read"} :
         LET key == sample_keys[sample_i]
             held == Store(key)
             read == ReadCommand(held.type)
             memory == IF held.memory = None THEN 0 ELSE held.memory[1]
             three == [i \in 1..3 |-> <<(<<"type", "memory_usage", "ttl">>)[i], key,
                                         IF (<<"type", "memory_usage", "ttl">>)[i] = at
                                         THEN "interrupted" ELSE "ok">>]
         IN  /\ at = "read" => read # <<>>
             /\ CASE at = "type" ->
                      /\ calls' = Append(calls, <<"type", key, "interrupted">>)
                      /\ pc' = "killed"
                      /\ UNCHANGED <<types, total_memory, ttl_info, sample_data, sample_i>>
                  [] at = "memory_usage" ->
                      /\ types' = CounterInc(types, held.type)
                      /\ ttl_info' = TtlCount(ttl_info, held.ttl)
                      /\ sample_data' = Append(sample_data,
                             [key |-> key, type |-> held.type, memory_bytes |-> None,
                              ttl |-> held.ttl,
                              sample_value |-> _get_sample_value(held.type, held.data, FALSE)])
                      /\ calls' = calls \o three
                                    \o (IF read = <<>> THEN <<>> ELSE <<<<read[1], key, "ok">>>>)
                      /\ sample_i' = sample_i + 1
                      /\ UNCHANGED <<pc, total_memory>>
                  [] at = "ttl" ->
                      /\ types' = CounterInc(types, held.type)
                      /\ total_memory' = total_memory + memory
                      /\ calls' = calls \o three
                      /\ pc' = "killed"
                      /\ UNCHANGED <<ttl_info, sample_data, sample_i>>
                  [] at = "read" ->
                      /\ types' = CounterInc(types, held.type)
                      /\ total_memory' = total_memory + memory
                      /\ ttl_info' = TtlCount(ttl_info, held.ttl)
                      /\ calls' = calls \o three \o <<<<read[1], key, "interrupted">>>>
                      /\ pc' = "killed"
                      /\ UNCHANGED <<sample_data, sample_i>>
    /\ UNCHANGED <<gen_vars, fn_vars, env_vars, scan_vars, run, prev_summary, faults_left,
                   group_i, pattern_groups, bucket_i, results, sample_keys,
                   exit_code, printed, caught>>

\* the store accepts a scan call, or the type query of the next sampled key, and
\* never answers.  The client is built without socket_timeout (lines 17-23), so
\* the call does not return.
StoreSilent ==
    /\ \/ pc = "scan"
       \/ pc = "profile" /\ sample_i <= Len(sample_keys)
    /\ pc' = "blocked"
    /\ UNCHANGED <<gen_vars, fn_vars, main_vars, env_vars, scan_vars, pattern_vars, run,
                   prev_summary, faults_left, group_i, pattern_groups, bucket_i,
                   results, calls>>

\* the steps the program takes on the answers of the store
ProgramNext ==
    \/ Connect
    \/ ScanCall
    \/ ScanRaise
    \/ GroupStart
    \/ GroupKey
    \/ GroupEnd
    \/ AnalyzeCall
    \/ ProfileKey
    \/ PatternReturn
    \/ AnalyzeEnd
    \/ PrintReport

NextMain ==
    \/ ProgramNext
    \/ StoreSilent
    \/ OperatorInterrupt
    \/ ProfileInterrupt

SpecMain == InitMain /\ [][NextMain]_vars


(***************************************************************************)
(* Properties of a run of main                                             *)
(***************************************************************************)
\* C15: when the connectivity check fails, or a scan call raises (after any
\* number of batches), the run has exited with a non-zero status and nothing
\* was grouped, analysed, profiled or printed.
C15_AbortWithoutAnalysis ==
    caught \in {"ping", "scan"} =>
        /\ pc = "exit"
        /\ exit_code # None /\ exit_code # Some(0)
        /\ pattern_groups = <<>> /\ results = <<>> /\ bucket_i = 0
        /\ calls = <<>>
        /\ printed = <<>>

C15_Witness ==
    /\ caught = "scan"
    /\ pc = "exit"
    /\ Len(all_keys) >= 2

\* C16: a run that exits after its scan completed exits with status 0 and has
\* printed a report covering every pattern, whichever profiling calls raised
\* and whatever the search-index introspection gave; a non-zero exit status
\* comes from the connectivity check or the scan only.
C16_SuccessAfterScan ==
    /\ (pc = "exit" /\ caught \notin {"ping", "scan"}) =>
           /\ exit_code = Some(0)
           /\ printed # <<>>
           /\ printed.patterns = Len(results)
    /\ (exit_code # None /\ exit_code # Some(0)) => caught \in {"ping", "scan"}

C16_Witness ==
    /\ pc = "exit"
    /\ exit_code = Some(0)
    /\ faults_left = 0
    /\ Len(results) = 2
    /\ printed.format = "detailed"
    /\ printed.search = "unavailable"

\* C17: a key deleted since the scan (type none, TTL -2) gets a sample record
\* like any other, with type none, TTL -2 and an 'Unknown type' preview instead
\* of an error; each such record is counted under expired; and while no store
\* call raises, every key of the sample reached so far has its record.
C17_DeletedKeySampled ==
    pc = "profile" =>
        /\ \A i \in 1..Len(sample_data) :
             Store(sample_data[i].key).type = "none" =>
                 /\ sample_data[i].type = "none"
                 /\ sample_data[i].ttl = -2
                 /\ sample_data[i].memory_bytes = None
                 /\ sample_data[i].sample_value = [type |-> "none", preview |-> TextUnknownType]
        /\ ttl_info.expired = Cardinality({i \in 1..Len(sample_data) : sample_data[i].ttl = -2})
        /\ faults_left = MaxFaults =>
               KeysOf(sample_data) = SubSeq(sample_keys, 1, sample_i - 1)

C17_Witness ==
    /\ pc = "profile"
    /\ sample_keys = <<KeyMeta, KeyMeta>>
    /\ sample_i = 3
    /\ Len(sample_data) = 2
    /\ ttl_info.expired = 2

\* C18: on an empty store analyze_keys returns an empty result without a
\* profiling call, and the run exits with status 0 after a report of 0 keys and
\* 0 patterns.
C18_EmptyStoreReport ==
    /\ (pc = "returned" /\ store_keys = <<>>) => (results = <<>> /\ calls = <<>>)
    /\ (pc = "exit" /\ store_keys = <<>> /\ caught \notin {"ping", "scan"}) =>
           /\ exit_code = Some(0)
           /\ printed # <<>>
           /\ printed.total_keys = 0
           /\ printed.patterns = 0
           /\ printed.lines = <<>>

C18_Witness ==
    /\ pc = "exit"
    /\ store_keys = <<>>
    /\ cursor = 0 /\ total_keys = 0
    /\ exit_code = Some(0)
    /\ printed # <<>>

\* C19 as stated: when the store never answers a call made for a sampled key,
\* a timeout ends the call and the program has a next step of its own (the
\* attempt recorded as an error, the loop going on to the end of the run).
C19_CallsTimeOut ==
    (pc = "blocked" /\ sample_i \in 1..Len(sample_keys)) => ENABLED ProgramNext

\* C20 as stated: once the operator's interrupt is delivered the run has
\* stopped: nothing more is scanned, profiled or printed.
C20_InterruptStopsRun == interrupted => pc = "killed"


(***************************************************************************)
(* Properties of the report, the scan loop and the analysis                *)
(***************************************************************************)
\* C21: in both formats the pattern lines are in non-increasing order of
\* total_keys and every pattern of the result has exactly one line.
C21_ReportSortedDescending ==
    printed # <<>> =>
        /\ \A i \in 1..(Len(printed.lines) - 1) :
               printed.lines[i][2] >= printed.lines[i + 1][2]
        /\ Len(printed.lines) = Len(results)
        /\ \A j \in 1..Len(results) :
               Cardinality({i \in 1..Len(printed.lines) :
                   printed.lines[i] = <<results[j].pattern, results[j].total_keys>>}) = 1

C21_Witness ==
    /\ printed # <<>>
    /\ printed.format = "summary"
    /\ Len(results) = 2
    /\ results[1].total_keys < results[2].total_keys
    /\ printed.lines[1][1] = results[2].pattern


\* C22: while the scan loop runs, the key list is exactly what the store has
\* handed out up to the position of the cursor the next call will pass (nothing
\* before the first call, when the cursor is 0); once the loop has ended the
\* cursor is 0 and the key list is every batch in order, the last one included;
\* total_keys counts the list.
C22_ScanLoopProtocol ==
    /\ pc = "scan" =>
           all_keys = SubSeq(store_keys, 1, IF cursor = 0 THEN 0 ELSE cursor - 1)
    /\ pc \in {"scanned", "group", "analyze", "profile", "returned"} =>
           (cursor = 0 /\ all_keys = store_keys)
    /\ pc # "idle" => total_keys = Len(all_keys)

C22_Witness ==
    /\ pc = "scanned"
    /\ cursor = 0
    /\ all_keys = <<KeyCardA, KeyMeta, KeyCardA>>
    /\ total_keys = 3


\* the keys of the scanned list that generalize to a pattern, in scan order
KeysOfPattern(keys, pattern) == SelectSeq(keys, LAMBDA k : PatternOf[k] = pattern)

\* C23: a profiling call is made only during the analysis, and during the
\* analysis the scan has ended and the buckets are, and stay, the complete
\* grouping of the scanned keys: one bucket per pattern, holding every scanned
\* key of that pattern in scan order.
C23_ProfileAfterGrouping ==
    /\ calls # <<>> => pc \in {"analyze", "profile", "returned"}
    /\ pc \in {"analyze", "profile", "returned"} =>
           /\ cursor = 0
           /\ all_keys = store_keys
           /\ \A i \in 1..Len(pattern_groups) :
                  /\ pattern_groups[i].keys = KeysOfPattern(all_keys, pattern_groups[i].pattern)
                  /\ \A j \in 1..Len(pattern_groups) :
                         pattern_groups[j].pattern = pattern_groups[i].pattern => j = i
           /\ \A n \in 1..Len(all_keys) :
                  \E i \in 1..Len(pattern_groups) : pattern_groups[i].pattern = PatternOf[all_keys[n]]

C23_Witness ==
    /\ pc = "returned"
    /\ Len(pattern_groups) = 2
    /\ Len(pattern_groups[1].keys) = 2
    /\ results[1].sample_size = 1
    /\ Len(calls) >= 6


\* the number of sample records whose TTL reply is in a set of replies
TtlReplies(records, replies) ==
    Cardinality({i \in 1..Len(records) : records[i].ttl \in replies})

\* C24: inside the sampling loop no_ttl counts the retained records with TTL
\* reply -1, expired those with -2 and with_ttl those with any other reply, and
\* in every report of the result the three counters add up to sample_size.
C24_TtlCountersSum ==
    /\ pc = "profile" =>
           /\ ttl_info.no_ttl = TtlReplies(sample_data, {-1})
           /\ ttl_info.expired = TtlReplies(sample_data, {-2})
           /\ ttl_info.with_ttl = Len(sample_data) - TtlReplies(sample_data, {-1, -2})
    /\ \A i \in 1..Len(results) :
           results[i] # EmptyReport =>
               results[i].ttl_info.no_ttl + results[i].ttl_info.expired
                   + results[i].ttl_info.with_ttl = results[i].sample_size

C24_Witness ==
    /\ pc = "returned"
    /\ Len(results) = 2
    /\ results[1].sample_size = 2
    /\ results[1].ttl_info = [with_ttl |-> 1, no_ttl |-> 1, expired |-> 0]
    /\ results[2].ttl_info = [with_ttl |-> 0, no_ttl |-> 0, expired |-> 1]


\* the calls the store received in the step being taken
NewCalls == SubSeq(calls', Len(calls) + 1, Len(calls'))

\* an iteration of the sampling loop in which the memory query raised, or gave
\* no value, and the TTL query did not raise
MemoryFailedStep ==
    /\ pc = "profile"
    /\ sample_i' = sample_i + 1
    /\ \E j \in 1..Len(NewCalls) :
           /\ NewCalls[j][1] = "memory_usage"
           /\ NewCalls[j][3] = "raised" \/ Store(NewCalls[j][2]).memory = None
    /\ \A j \in 1..Len(NewCalls) : NewCalls[j][1] = "ttl" => NewCalls[j][3] = "ok"

\* C25: in an iteration whose memory query raises or gives no value (and whose
\* TTL query answers) the key's type is counted, one TTL counter is incremented,
\* a record of the key is appended with memory_bytes None, and total_memory is
\* unchanged.
C25_MemoryFailureKeepsKey ==
    [][MemoryFailedStep =>
          /\ types' = CounterInc(types, Store(sample_keys[sample_i]).type)
          /\ ttl_info'.no_ttl + ttl_info'.expired + ttl_info'.with_ttl
                 = ttl_info.no_ttl + ttl_info.expired + ttl_info.with_ttl + 1
          /\ Len(sample_data') = Len(sample_data) + 1
          /\ sample_data'[Len(sample_data')].key = sample_keys[sample_i]
          /\ sample_data'[Len(sample_data')].memory_bytes = None
          /\ SubSeq(sample_data', 1, Len(sample_data)) = sample_data
          /\ total_memory' = total_memory]_vars

C25_Witness ==
    /\ pc = "profile"
    /\ \E j \in 1..Len(calls) : calls[j] = <<"memory_usage", KeyOracle, "raised">>
    /\ sample_data # <<>>
    /\ sample_data[Len(sample_data)].key = KeyOracle
    /\ sample_data[Len(sample_data)].memory_bytes = None
    /\ total_memory = 0


(***************************************************************************)
(* _get_sample_value called on one value                                   *)
(***************************************************************************)
\* most elements of a collection value
MaxItems == 5

\* most characters by which a text exceeds the preview length
MaxOver == 1

TextLens == {0, 1} \cup ((PreviewLen - 1)..(PreviewLen + MaxOver))

\* string values: absent, not JSON, a JSON string (the text between quotes), a
\* JSON number (str() gives its digits back) and an empty JSON object
StringValues ==
    {[present |-> FALSE, raw |-> <<>>, loads |-> <<"invalid", <<>> >>]}
    \cup {[present |-> TRUE, raw |-> Rep("x", n), loads |-> <<"invalid", <<>> >>] :
             n \in TextLens}
    \cup {[present |-> TRUE, raw |-> <<"\"">> \o Rep("x", n) \o <<"\"">>,
           loads |-> <<"str", Rep("x", n)>>] : n \in TextLens}
    \cup {[present |-> TRUE, raw |-> Rep("7", n), loads |-> <<"other", Rep("7", n)>>] :
             n \in TextLens \ {0}}
    \cup {[present |-> TRUE, raw |-> <<"{","}">>, loads |-> <<"other", <<"{","}">> >>]}

CollectionValues == {[i \in 1..n |-> i] : n \in 0..MaxItems}

StringInputs ==
    {[key_type |-> "string", data |-> d, raises |-> f] :
        d \in StringValues, f \in BOOLEAN}

CollectionInputs ==
    {[key_type |-> t, data |-> d, raises |-> f] :
        t \in {"hash", "list", "set", "zset", "stream"}, d \in CollectionValues,
        f \in BOOLEAN}

\* a key of a type the function does not know (a deleted key has type none)
UnknownInputs ==
    {[key_type |-> "none",
      data |-> [present |-> FALSE, raw |-> <<>>, loads |-> <<"invalid", <<>> >>],
      raises |-> FALSE]}

InitValue ==
    /\ GenIdle
    /\ RunIdle
    /\ fn_pc = "call"
    /\ \/ fn_args \in StringInputs
       \/ fn_args \in CollectionInputs
       \/ fn_args \in UnknownInputs
    /\ fn_out = <<>>

ValueCall ==
    /\ fn_pc = "call"
    /\ fn_out' = [value |-> _get_sample_value(fn_args.key_type, fn_args.data, fn_args.raises),
                  read |-> IF fn_args.raises THEN 0
                           ELSE StoreRead(fn_args.key_type, fn_args.data)]
    /\ fn_pc' = "done"
    /\ UNCHANGED <<gen_vars, main_vars, env_vars, scan_vars, pattern_vars, pc, run,
                   prev_summary, faults_left, group_i, pattern_groups, bucket_i,
                   results, calls, fn_args>>

NextValue == ValueCall

SpecValue == InitValue /\ [][NextValue]_vars


(***************************************************************************)
(* Properties of _get_sample_value                                         *)
(***************************************************************************)
\* text p is the first min(len, PreviewLen) characters of text s
PreviewOf(p, s) == p = SubSeq(s, 1, Min(Len(s), PreviewLen))

\* C26: every call returns a value with a type tag.  When the store call of the
\* branch raises, the value carries the key's type and an error text.  Otherwise
\* a string that decodes as JSON gives a 'json' preview, the first 200
\* characters of the decoded string or of str() of any other decoded value; a
\* string that does not decode, or is absent, gives a 'string' preview, the
\* first 200 characters of the raw text (of 'None' when absent); and no other
\* value carries an error.
C26_SampleValueDegrades ==
    fn_pc = "done" =>
        LET a == fn_args
            v == fn_out.value
        IN  /\ "type" \in DOMAIN v
            /\ (a.raises /\ a.key_type # "none") =>
                   (DOMAIN v = {"type", "error"} /\ v.type = a.key_type)
            /\ (~a.raises /\ a.key_type = "string") =>
                   IF a.data.present /\ a.data.loads[1] # "invalid"
                   THEN /\ DOMAIN v = {"type", "preview"}
                        /\ v.type = "json"
                        /\ PreviewOf(v.preview, a.data.loads[2])
                   ELSE /\ DOMAIN v = {"type", "preview"}
                        /\ v.type = "string"
                        /\ PreviewOf(v.preview, IF a.data.present THEN a.data.raw ELSE TextNone)
            /\ ~a.raises => "error" \notin DOMAIN v

C26_Witness ==
    /\ fn_pc = "done"
    /\ fn_args.key_type = "string"
    /\ ~fn_args.raises
    /\ fn_args.data.loads[1] = "other"
    /\ Len(fn_args.data.loads[2]) > PreviewLen
    /\ fn_out.value.type = "json"
    /\ Len(fn_out.value.preview) = PreviewLen

\* C27 as stated: the preview holds at most 3 fields, items or members of a
\* collection, at most 200 characters of a scalar and only a length of an
\* append-log, and what the call reads from the store is bounded likewise,
\* whatever the size of the value.
C27_BoundedRead ==
    (fn_pc = "done" /\ ~fn_args.raises) =>
        LET a == fn_args
            v == fn_out.value
        IN  /\ a.key_type = "string" => Len(v.preview) <= PreviewLen
            /\ a.key_type = "hash" => Len(v.sample_fields) <= SampleItems
            /\ a.key_type = "list" => Len(v.sample_items) <= SampleItems
            /\ a.key_type \in {"set", "zset"} => Len(v.sample_members) <= SampleItems
            /\ a.key_type = "stream" => DOMAIN v = {"type", "length"}
            /\ fn_out.read <= (IF a.key_type = "string" THEN PreviewLen ELSE SampleItems)


(***************************************************************************)
(* print_redisearch_info.  `listing` is the store's answer to FT._LIST:     *)
(* whether the command raises and, per listed index, whether FT.INFO raises *)
(* and the flat list of keys and values it returns.  The result is the      *)
(* sequence of lines printed after the banner.                              *)
(***************************************************************************)
TextNA == <<"N","/","A">>

\* info_dict.get(key, default) after the loop of lines 273-275: a key in an even
\* position (0, 2, ...) with a value after it; a later pair replaces an earlier one
InfoGet(info, key, default) ==
    LET at == {i \in 1..Len(info) : i % 2 = 1 /\ i + 1 <= Len(info) /\ info[i] = key}
    IN  IF at = {} THEN default
        ELSE info[(CHOOSE i \in at : \A j \in at : j <= i) + 1]

\* the lines printed for one index
IndexLines(n, index) ==
    <<<<"index", n>>>> \o
    (IF index.info_raises
     THEN <<<<"error", n>>>>
     ELSE <<<<"documents", n, InfoGet(index.info, "num_docs", TextNA)>>,
            <<"size", n, InfoGet(index.info, "inverted_sz_mb", TextNA)>>,
            <<"fields", n, Len(InfoGet(index.info, "attributes", <<>>))>>>>)

\* a plausible slip: FT.INFO called without a try/except of its own, the first
\* failure leaving the loop for the handler of the whole function
RECURSIVE AllIndexLinesOneTry(_, _)
AllIndexLinesOneTry(indexes, n) ==
    IF n > Len(indexes) THEN <<>>
    ELSE IF indexes[n].info_raises THEN <<<<"index", n>>, <<"unavailable">>>>
    ELSE IndexLines(n, indexes[n]) \o AllIndexLinesOneTry(indexes, n + 1)

\* `for index in indexes`
RECURSIVE AllIndexLines(_, _)
AllIndexLines(indexes, n) ==
    IF n > Len(indexes) THEN <<>>
    ELSE IndexLines(n, indexes[n]) \o AllIndexLines(indexes, n + 1)

print_redisearch_info(listing) ==
    IF listing.raises THEN <<<<"unavailable">>>>
    ELSE IF listing.indexes = <<>> THEN <<<<"none">>>>
    ELSE <<<<"found", Len(listing.indexes)>>>> \o AllIndexLines(listing.indexes, 1)

\* most indexes the store lists
MaxIndexes == 2

\* answers of FT.INFO: nothing, one or both of the two metadata fields, a key
\* without its value at the end, and the field definitions
InfoPool ==
    { <<>>,
      <<"num_docs", <<"5">> >>,
      <<"inverted_sz_mb", <<"2">> >>,
      <<"num_docs", <<"5">>, "inverted_sz_mb", <<"2">> >>,
      <<"num_docs", <<"5">>, "inverted_sz_mb">>,
      <<"num_docs", <<"5">>, "inverted_sz_mb", <<"2">>, "attributes", <<"title", "body">> >> }

IndexPool ==
    {[info_raises |-> TRUE, info |-> <<>>]}
    \cup {[info_raises |-> FALSE, info |-> info] : info \in InfoPool}

InitSearch ==
    /\ GenIdle
    /\ RunIdle
    /\ fn_pc = "call"
    /\ \/ fn_args = [raises |-> TRUE, indexes |-> <<>>]
       \/ \E indexes \in SeqsUpTo(IndexPool, MaxIndexes) :
              fn_args = [raises |-> FALSE, indexes |-> indexes]
    /\ fn_out = <<>>

SearchInfoCall ==
    /\ fn_pc = "call"
    /\ fn_out' = print_redisearch_info(fn_args)
    /\ fn_pc' = "done"
    /\ UNCHANGED <<gen_vars, main_vars, env_vars, scan_vars, pattern_vars, pc, run,
                   prev_summary, faults_left, group_i, pattern_groups, bucket_i,
                   results, calls, fn_args>>

NextSearch == SearchInfoCall

SpecSearch == InitSearch /\ [][NextSearch]_vars


\* positions of the lines about index n in the printed lines
LinesOf(lines, n) == {i \in 1..Len(lines) : Len(lines[i]) >= 2 /\ lines[i][1] # "found" /\ lines[i][2] = n}

\* the value that follows key in a flat answer, <<>> when the key or its value is missing
FieldOf(info, key) ==
    IF \E i \in 1..(Len(info) - 1) : i % 2 = 1 /\ info[i] = key
    THEN <<info[(CHOOSE i \in 1..(Len(info) - 1) : i % 2 = 1 /\ info[i] = key) + 1]>>
    ELSE <<>>

\* C28: print_redisearch_info never raises; a failing FT._LIST prints the one
\* "not available" line; otherwise every listed index is shown, in order, a
\* failing FT.INFO as an error line of that index alone and a missing num_docs
\* or inverted_sz_mb as "N/A", whatever happened to the indexes before it.
C28_SearchInfoDegrades ==
    fn_pc = "done" =>
        LET indexes == fn_args.indexes
        IN  /\ fn_args.raises => fn_out = <<<<"unavailable">>>>
            /\ ~fn_args.raises =>
                /\ \A i \in 1..Len(fn_out) : fn_out[i] # <<"unavailable">>
                /\ \A n \in 1..Len(indexes) :
                    LET at == LinesOf(fn_out, n)
                        kinds == {fn_out[i][1] : i \in at}
                        docs == FieldOf(indexes[n].info, "num_docs")
                        size == FieldOf(indexes[n].info, "inverted_sz_mb")
                    IN  /\ \E i \in at : fn_out[i] = <<"index", n>>
                        /\ \A m \in 1..(n - 1) : \A i \in LinesOf(fn_out, m) : \A j \in at : i < j
                        /\ IF indexes[n].info_raises
                           THEN kinds = {"index", "error"}
                           ELSE /\ kinds = {"index", "documents", "size", "fields"}
                                /\ \E i \in at : fn_out[i] = <<"documents", n, IF docs = <<>> THEN TextNA ELSE docs[1]>>
                                /\ \E i \in at : fn_out[i] = <<"size", n, IF size = <<>> THEN TextNA ELSE size[1]>>

\* a failing index followed by one shown with a missing index size
C28_Witness ==
    /\ fn_pc = "done"
    /\ ~fn_args.raises
    /\ Len(fn_args.indexes) = 2
    /\ fn_args.indexes[1].info_raises
    /\ ~fn_args.indexes[2].info_raises
    /\ fn_args.indexes[2].info = <<"num_docs", <<"5">>, "inverted_sz_mb">>
    /\ fn_out = << <<"found", 2>>, <<"index", 1>>, <<"error", 1>>, <<"index", 2>>,
                   <<"documents", 2, <<"5">> >>, <<"size", 2, TextNA>>, <<"fields", 2, 0>> >>


\* C29: _extract_pattern is idempotent, generalizing its own result changes
\* nothing; and a key whose final segment is already one of the four
\* placeholders is returned as it is.
C29_ExtractPatternIdempotent ==
    gen_pc = "done" =>
        /\ _extract_pattern(gen_pattern) = gen_pattern
        /\ (FinalSegment(gen_key) \in {Tail(p) : p \in Placeholders}) => (gen_pattern = gen_key)

\* a set code generalized once, and the result left alone the second time
C29_Witness ==
    /\ gen_pc = "done"
    /\ gen_key = <<"c","a","r","d",":","A","B","C">>
    /\ gen_pattern = <<"c","a","r","d">> \o SfxSetCode
    /\ _extract_pattern(gen_pattern) = gen_pattern


\* the keys of the dict _analyze_pattern returns for a non-empty bucket
ReportFields ==
    {"pattern", "total_keys", "sample_size", "types", "total_memory_bytes",
     "avg_memory_bytes", "ttl_info", "sample_keys", "sample_data"}

\* C30: every bucket of pattern_groups holds at least one key, so every report
\* of the result is a full one, with every field the formatters read and
\* total_keys >= 1, never the empty dict; the report is therefore never
\* abandoned on a missing field.
C30_BucketsNonEmpty ==
    /\ \A i \in 1..Len(pattern_groups) : pattern_groups[i].keys # <<>>
    /\ \A i \in 1..Len(results) :
        /\ results[i] # EmptyReport
        /\ DOMAIN results[i] = ReportFields
        /\ results[i].total_keys >= 1
        /\ DOMAIN results[i].ttl_info = {"with_ttl", "no_ttl", "expired"}
        /\ \A j \in 1..Len(results[i].sample_data) :
               {"key", "type", "sample_value"} \subseteq DOMAIN results[i].sample_data[j]
    /\ caught # "report"
    /\ (pc = "exit" /\ caught \notin {"ping", "scan"}) => (exit_code = Some(0) /\ printed # <<>>)

\* two buckets analyzed, one of them with no key profiled, and the report shown
C30_Witness ==
    /\ pc = "exit"
    /\ printed # <<>>
    /\ Len(pattern_groups) = 2
    /\ Len(results) = 2
    /\ \E i \in 1..2 : results[i].sample_data = <<>> /\ results[i].total_keys >= 1
    /\ \E i \in 1..2 : results[i].total_keys = 2

====
